---- MODULE Spec2Model ----
(***************************************************************************)
(* Model of the NuGet restore step (src/main.go): parse the configuration, *)
(* optionally download the requested nuget.exe with one retry, run the     *)
(* restore command with one retry, then collect and commit cache paths.    *)
(*                                                                         *)
(* Strings that the code takes apart or compares are sequences: a version  *)
(* is a sequence of characters, a path is a sequence of segments, an       *)
(* argument vector is a sequence of paths/words.                           *)
(***************************************************************************)
EXTENDS Integers, Sequences, FiniteSets, TLC

VARIABLES
    pc,          \* position of main: "parse", "resolve", "download", "restore", "collect", "exited"
    exitCode,    \* -1 while running; 0 normal return of main; 1 os.Exit(1) in fail; 2 runtime panic
    env,         \* the step inputs read by stepconf.Parse
    configs,     \* ConfigsModel after a successful Parse
    nuGetURL,    \* URL built by downloadNuGet
    downloadPth, \* target path built by downloadNuGet
    dlAttempts,  \* one record per call of DownloadFile, in order
    destFile,    \* content of the file at downloadPth
    cmdArgs,     \* nuGetRestoreCmdArgs handed to runRestoreCommand
    rsAttempts,  \* one record per run of the retried restore closure, in order
    dlErr,       \* error returned by downloadNuGet: "pending" until it returns, "nil" on success
    rsErr,       \* error returned by runRestoreCommand: "pending" until it returns, "nil" on success
    logs,        \* log lines in order, [level, msg]
    fs,          \* what collectLocalCaches met on disk: [absOK, root, nodes]
    cache        \* the cache.Cache of collectCaches: [walked, envRead, envVal, globalExists,
                 \*   localErr, paths, commits, commitErr]

vars == <<pc, exitCode, env, configs, nuGetURL, downloadPth, dlAttempts, destFile,
          cmdArgs, rsAttempts, dlErr, rsErr, logs, fs, cache>>

-----------------------------------------------------------------------------
(* Bound of the model: number of entries below the project root.           *)
MaxNodes == 2

-----------------------------------------------------------------------------
(* Strings                                                                 *)

strEmpty  == << >>
strLatest == <<"l", "a", "t", "e", "s", "t">>
strV      == <<"v">>

\* nuget_version inputs: unset, the sentinel, an explicit version.
Versions ==
    { strEmpty,
      strLatest,
      <<"3", ".", "3">> }

cacheInputNone   == "none"
cacheInputlocal  == "local"
cacheInputGlobal == "global"
cacheInputAll    == "all"

CacheLevelOpts == {cacheInputlocal, cacheInputGlobal, cacheInputAll, cacheInputNone}

nuGetPth == <<"Library", "Frameworks", "Mono.framework", "Versions", "Current", "bin", "nuget">>
MonoPath == <<"Library", "Frameworks", "Mono.framework", "Versions", "Current", "bin", "mono">>
wordRestore == <<"restore">>

\* fmt.Sprintf("https://dist.nuget.org/win-x86-commandline/%s/nuget.exe", version)
urlHead == <<"https://dist.nuget.org/win-x86-commandline/">>
urlTail == <<"/nuget.exe">>

\* A build that leaves the version segment as given.
VersionSegment_NoPrefix(version) == version

\* if version != "latest" { version = `v` + version }
VersionSegment(version) ==
    IF version # strLatest THEN strV \o version ELSE version

BuildURL(version) == urlHead \o VersionSegment(version) \o urlTail

\* filepath.Join(tmpDir, "nuget.exe")
tmpDirPath == <<"tmp", "__nuget__0">>
JoinNuGetExe(tmpDir) == tmpDir \o <<"nuget.exe">>

-----------------------------------------------------------------------------
(* Logging                                                                 *)

Log(level, msg) == [level |-> level, msg |-> msg]

-----------------------------------------------------------------------------
(* retry.Times(n).Try(action): the loop of the retry helper                *)

dlRetry == 1

\* A restore wrapped in retry.Times(2).
rsRetry_Two == 1 + 1

rsRetry == 1

\* A closure that warns on every attempt.
RetryWarns_Always(attempt) == TRUE

\* if attempt > 0 { log.Warnf(...) } at the head of both retried closures
RetryWarns(attempt) == attempt > 0

\* for attempt := 0; (attempt == 0 || err != nil) && attempt <= retry; attempt++
RetryContinues(attempt, err, retry) ==
    (attempt = 0 \/ err # "nil") /\ attempt <= retry

\* The err variable of the loop after the attempts made so far.
LastErr(attempts) ==
    IF attempts = << >> THEN "nil" ELSE attempts[Len(attempts)].err

\* err is overwritten by every attempt; Try returns the last one.
TryResult(attempts) ==
    IF attempts = << >> THEN "nil" ELSE attempts[Len(attempts)].err

-----------------------------------------------------------------------------
(* DownloadFile                                                            *)

StatusOK == 200
StatusCodes == {StatusOK, 404}

\* Body served to the k-th GET, in two chunks.
Body(k) == <<[att |-> k, part |-> 1], [att |-> k, part |-> 2]>>

\* What the environment does to one call: whether the file can be created,
\* whether the GET gets a response, its status, whether the body can be read
\* to its end (a response of any status may carry a readable body).
DownloadOutcomes ==
    { [createOK |-> FALSE, getOK |-> FALSE, status |-> 0, copyOK |-> FALSE] }
    \cup { [createOK |-> TRUE, getOK |-> FALSE, status |-> 0, copyOK |-> FALSE] }
    \cup { [createOK |-> TRUE, getOK |-> TRUE, status |-> s, copyOK |-> c] :
             s \in StatusCodes, c \in BOOLEAN }

\* A DownloadFile that does not look at the status code.
DownloadFileErr_AnyStatus(out) ==
    IF ~out.createOK THEN "create"
    ELSE IF ~out.getOK THEN "get"
    ELSE IF ~out.copyOK THEN "copy"
    ELSE "nil"

\* The error DownloadFile returns.
DownloadFileErr(out) ==
    IF ~out.createOK THEN "create"
    ELSE IF ~out.getOK THEN "get"
    ELSE IF out.status # StatusOK THEN "status"
    ELSE IF ~out.copyOK THEN "copy"
    ELSE "nil"

\* A file opened for appending instead of being truncated.
DownloadFileContent_Append(old, out, k) ==
    IF ~out.createOK THEN old
    ELSE IF ~out.getOK \/ out.status # StatusOK THEN old
    ELSE IF ~out.copyOK THEN old \o SubSeq(Body(k), 1, 1)
    ELSE old \o Body(k)

\* The file at targetPath after the call: os.Create truncates, io.Copy appends.
DownloadFileContent(old, out, k) ==
    IF ~out.createOK THEN old
    ELSE IF ~out.getOK \/ out.status # StatusOK THEN << >>
    ELSE IF ~out.copyOK THEN SubSeq(Body(k), 1, 1)
    ELSE Body(k)

\* Log lines of the deferred closes: closing the nil file of a failed
\* os.Create returns an error, which is logged as a warning.
DownloadFileLogs(out) ==
    IF ~out.createOK THEN <<Log("warn", "Failed to close")>> ELSE << >>

-----------------------------------------------------------------------------
(* State                                                                   *)

solutionPath == <<"proj", "app.sln">>
solutionInPackages == <<"packages", "app.sln">>

\* xamarin_solution: unset, a path with no file, or the path of a solution
\* file, which may lie in a directory that is itself named packages.
SolutionInputs ==
    { [path |-> << >>, exists |-> FALSE],
      [path |-> solutionPath, exists |-> FALSE],
      [path |-> solutionPath, exists |-> TRUE],
      [path |-> solutionInPackages, exists |-> TRUE] }

CacheLevelInputs == CacheLevelOpts \cup {"", "everything"}

noConfigs == [XamarinSolution |-> << >>, NuGetVersion |-> << >>, CacheLevel |-> ""]
noFS      == [absOK |-> TRUE, root |-> "none", nodes |-> {}]
noCache   == [walked |-> FALSE, envRead |-> FALSE, envVal |-> << >>,
              globalExists |-> FALSE, localErr |-> "nil",
              paths |-> << >>, commits |-> 0, commitErr |-> "nil"]

Init ==
    /\ pc = "parse"
    /\ exitCode = -1
    /\ \E sol \in SolutionInputs, v \in Versions, c \in CacheLevelInputs :
          env = [xamarin_solution |-> sol.path, solution_exists |-> sol.exists,
                 nuget_version |-> v, cache_level |-> c]
    /\ configs = noConfigs
    /\ nuGetURL = << >>
    /\ downloadPth = << >>
    /\ dlAttempts = << >>
    /\ destFile = << >>
    /\ cmdArgs = << >>
    /\ rsAttempts = << >>
    /\ dlErr = "pending"
    /\ rsErr = "pending"
    /\ logs = << >>
    /\ fs = noFS
    /\ cache = noCache

\* fail: log.Errorf, then os.Exit(1)
Fail(msg, soFar) ==
    /\ logs' = soFar \o <<Log("error", msg)>>
    /\ exitCode' = 1
    /\ pc' = "exited"

-----------------------------------------------------------------------------
(* main, up to the restore command                                         *)

\* A parser that accepts any cache_level.
ParseErr_NoOptCheck(e) ==
    IF ~e.solution_exists THEN "file" ELSE "nil"

\* stepconf.Parse with the tags of ConfigsModel: xamarin_solution must name an
\* existing file, cache_level must be one of the listed options.
ParseErr(e) ==
    IF ~e.solution_exists THEN "file"
    ELSE IF e.cache_level \notin CacheLevelOpts THEN "opt"
    ELSE "nil"

Parse ==
    /\ pc = "parse"
    /\ IF ParseErr(env) # "nil"
       THEN /\ Fail("Issue with input", logs)
            /\ UNCHANGED <<configs, cmdArgs>>
       ELSE /\ configs' = [XamarinSolution |-> env.xamarin_solution,
                           NuGetVersion    |-> env.nuget_version,
                           CacheLevel      |-> env.cache_level]
            /\ logs' = logs \o <<Log("info", "Configs:")>>
            /\ cmdArgs' = <<nuGetPth>>
            /\ pc' = "resolve"
            /\ UNCHANGED exitCode
    /\ UNCHANGED <<env, nuGetURL, downloadPth, dlAttempts, destFile, rsAttempts,
                   dlErr, rsErr, fs, cache>>

\* An argument vector with the solution before the subcommand.
AppendRestore_Swapped(prefix, solution) == prefix \o <<solution, wordRestore>>

\* nuGetRestoreCmdArgs = append(nuGetRestoreCmdArgs, "restore", configs.XamarinSolution)
AppendRestore(prefix, solution) == prefix \o <<wordRestore, solution>>

\* configs.NuGetVersion == "": the pre-installed binary is used as it is.
UseSystemNuGet ==
    /\ pc = "resolve"
    /\ configs.NuGetVersion = strEmpty
    /\ cmdArgs' = AppendRestore(cmdArgs, configs.XamarinSolution)
    /\ logs' = logs \o <<Log("info", "Restoring NuGet packages...")>>
    /\ pc' = "restore"
    /\ UNCHANGED <<exitCode, env, configs, nuGetURL, downloadPth, dlAttempts, destFile,
                   rsAttempts, dlErr, rsErr, fs, cache>>

\* An invocation that runs the downloaded binary without the interpreter.
DownloadedInvocation_NoMono(pth) == <<pth>>

\* nuGetRestoreCmdArgs = []string{constants.MonoPath, downloadPth}
DownloadedInvocation(pth) == <<MonoPath, pth>>

\* A main that goes on with the restore when the download failed.
DownloadFatal_Never(err) == FALSE

\* if err != nil { fail("%s", err) } after downloadNuGet
DownloadFatal(err) == err # "nil"

\* if err != nil { fail(...) } after runRestoreCommand
RestoreFatal(err) == err # "nil"

\* downloadNuGet up to the retry loop: temp dir, target path, URL.
DownloadBegin ==
    /\ pc = "resolve"
    /\ configs.NuGetVersion # strEmpty
    /\ \E tmpOK \in BOOLEAN :
          IF ~tmpOK
          THEN /\ dlErr' = "tmpdir"
               /\ Fail("failed to create tmp dir",
                       logs \o <<Log("info", "Downloading NuGet")>>)
               /\ UNCHANGED <<nuGetURL, downloadPth>>
          ELSE /\ downloadPth' = JoinNuGetExe(tmpDirPath)
               /\ nuGetURL' = BuildURL(configs.NuGetVersion)
               /\ logs' = logs \o <<Log("info", "Downloading NuGet"),
                                    Log("print", "Download URL")>>
               /\ pc' = "download"
               /\ UNCHANGED <<exitCode, dlErr>>
    /\ UNCHANGED <<env, configs, dlAttempts, destFile, cmdArgs, rsAttempts, rsErr, fs, cache>>

\* One run of the closure handed to retry.Times(1).Wait(time.Second).Try.
DownloadAttempt ==
    /\ pc = "download"
    /\ RetryContinues(Len(dlAttempts), LastErr(dlAttempts), dlRetry)
    /\ \E out \in DownloadOutcomes :
          LET attempt == Len(dlAttempts)
              err     == DownloadFileErr(out)
          IN  /\ dlAttempts' = Append(dlAttempts,
                     [attempt |-> attempt, url |-> nuGetURL, target |-> downloadPth,
                      out |-> out, err |-> err])
              /\ destFile' = DownloadFileContent(destFile, out, attempt)
              /\ logs' = logs
                     \o (IF RetryWarns(attempt) THEN <<Log("warn", "Retrying...")>>
                         ELSE << >>)
                     \o DownloadFileLogs(out)
                     \o (IF err # "nil"
                         THEN <<Log("error", "Failed to download NuGet")>> ELSE << >>)
    /\ UNCHANGED <<pc, exitCode, env, configs, nuGetURL, downloadPth, cmdArgs,
                   rsAttempts, dlErr, rsErr, fs, cache>>

\* Try returns; main fails on an error, else builds the argument vector.
DownloadReturn ==
    /\ pc = "download"
    /\ ~RetryContinues(Len(dlAttempts), LastErr(dlAttempts), dlRetry)
    /\ dlErr' = TryResult(dlAttempts)
    /\ IF DownloadFatal(TryResult(dlAttempts))
       THEN /\ Fail("download failed", logs)
            /\ UNCHANGED cmdArgs
       ELSE /\ cmdArgs' = AppendRestore(DownloadedInvocation(downloadPth),
                                        configs.XamarinSolution)
            /\ logs' = logs \o <<Log("info", "Restoring NuGet packages...")>>
            /\ pc' = "restore"
            /\ UNCHANGED exitCode
    /\ UNCHANGED <<env, configs, nuGetURL, downloadPth, dlAttempts, destFile,
                   rsAttempts, rsErr, fs, cache>>

-----------------------------------------------------------------------------
(* runRestoreCommand                                                       *)

\* What the environment does to one run of the command: it exits zero, it
\* exits non-zero, or the child process cannot be started.
RestoreOutcomes == {"ok", "exit", "start"}

\* command.NewFromSlice refuses an empty slice.
NewFromSliceErr(args) == IF Len(args) = 0 THEN "empty" ELSE "nil"

\* A runner that only counts a non-zero exit as a failure.
RunErr_StartIgnored(out) == IF out = "exit" THEN out ELSE "nil"

\* cmd.Run(): any error of the run is the error of the attempt.
RunErr(out) == IF out = "ok" THEN "nil" ELSE out

\* One run of the closure handed to retry.Times(1).Try.
RestoreAttempt ==
    /\ pc = "restore"
    /\ RetryContinues(Len(rsAttempts), LastErr(rsAttempts), rsRetry)
    /\ LET attempt == Len(rsAttempts)
           pre == logs
                  \o (IF RetryWarns(attempt)
                      THEN <<Log("warn", "Attempt failed, retrying...")>>
                      ELSE << >>)
                  \o <<Log("done", "$ command")>>
       IN  IF NewFromSliceErr(cmdArgs) # "nil"
           THEN /\ Fail("Failed to create NuGet command", pre)
                /\ UNCHANGED rsAttempts
           ELSE \E out \in RestoreOutcomes :
                  /\ rsAttempts' = Append(rsAttempts,
                         [attempt |-> attempt, args |-> cmdArgs, out |-> out,
                          err |-> RunErr(out)])
                  /\ logs' = pre \o (IF RunErr(out) # "nil"
                                     THEN <<Log("error", "Restore failed")>> ELSE << >>)
                  /\ UNCHANGED <<pc, exitCode>>
    /\ UNCHANGED <<env, configs, nuGetURL, downloadPth, dlAttempts, destFile, cmdArgs,
                   dlErr, rsErr, fs, cache>>

\* Try returns; main fails on an error, else goes on to the caches.
RestoreReturn ==
    /\ pc = "restore"
    /\ ~RetryContinues(Len(rsAttempts), LastErr(rsAttempts), rsRetry)
    /\ rsErr' = TryResult(rsAttempts)
    /\ IF RestoreFatal(TryResult(rsAttempts))
       THEN Fail("NuGet restore failed", logs)
       ELSE /\ logs' = logs \o <<Log("info", "Collecting NuGet cache...")>>
            /\ pc' = "collect"
            /\ UNCHANGED exitCode
    /\ UNCHANGED <<env, configs, nuGetURL, downloadPth, dlAttempts, destFile, cmdArgs,
                   rsAttempts, dlErr, fs, cache>>

-----------------------------------------------------------------------------
(* The tree collectLocalCaches walks                                       *)

\* Entry names, in the lexical order in which filepath.Walk visits siblings.
NameOrder == <<"Packages", "packages", "sub">>
Names == {NameOrder[i] : i \in 1..Len(NameOrder)}

\* What os.Lstat and the directory read report for an entry:
\*   "dir"        a directory that can be listed
\*   "unreadable" a directory whose listing fails
\*   "file"       a regular file
\*   "nolstat"    an entry whose Lstat fails
Statuses == {"dir", "unreadable", "file", "nolstat"}
IsDirStatus(st) == st \in {"dir", "unreadable"}

NodePaths(nodes) == {n.path : n \in nodes}
DirPaths(nodes)  == {<< >>} \cup {n.path : n \in {m \in nodes : IsDirStatus(m.st)}}

\* Every way to put one more entry into a directory of the tree.
Extend(nodes) ==
    LET free == {c \in DirPaths(nodes) \X Names : Append(c[1], c[2]) \notin NodePaths(nodes)}
    IN  { nodes \cup {[path |-> Append(c[1], c[2]), st |-> st]} : c \in free, st \in Statuses }

RECURSIVE TreesOfSize(_)
TreesOfSize(n) ==
    IF n = 0 THEN {{}}
    ELSE UNION {Extend(t) : t \in TreesOfSize(n - 1)}

Trees == UNION {TreesOfSize(k) : k \in 0..MaxNodes}

\* The disk as one call of collectLocalCaches finds it: the root cannot be
\* resolved, or its Lstat fails, or it is a directory that can be listed, or
\* one that cannot (what lies below is then never seen; one entry stands for
\* it).
FSStates ==
    { [absOK |-> FALSE, root |-> "none", nodes |-> {}],
      [absOK |-> TRUE, root |-> "nolstat", nodes |-> {}] }
    \cup { [absOK |-> TRUE, root |-> "dir", nodes |-> t] : t \in Trees }
    \cup { [absOK |-> TRUE, root |-> "unreadable", nodes |-> t] :
             t \in TreesOfSize(0) \cup TreesOfSize(1) }

cwd == <<"work">>

\* path.Dir
PathDir(p) == IF Len(p) <= 1 THEN << >> ELSE SubSeq(p, 1, Len(p) - 1)
\* filepath.Abs of a relative path
Abs(p) == cwd \o p
\* os.FileInfo.Name
BaseName(p) == IF p = << >> THEN "/" ELSE p[Len(p)]

StatusAt(nodes, rootSt, rel) ==
    IF rel = << >> THEN rootSt
    ELSE (CHOOSE n \in nodes : n.path = rel).st

\* readDirNames: the names in the directory, sorted.
ChildNames(nodes, rel) ==
    SelectSeq(NameOrder, LAMBDA nm : Append(rel, nm) \in NodePaths(nodes))

\* A callback that matches any entry named packages.
WalkFn_AnyKind(absPath, st, caches) ==
    IF st = "nolstat" THEN [caches |-> caches, ret |-> "panic"]
    ELSE IF BaseName(absPath) = "packages"
         THEN [caches |-> Append(caches, absPath), ret |-> "EOF"]
         ELSE [caches |-> caches, ret |-> "nil"]

\* The callback handed to filepath.Walk. It does not look at err; with a
\* failed Lstat f is nil and f.IsDir() is a nil dereference.
WalkFn(absPath, st, caches) ==
    IF st = "nolstat" THEN [caches |-> caches, ret |-> "panic"]
    ELSE IF IsDirStatus(st) /\ BaseName(absPath) = "packages"
         THEN [caches |-> Append(caches, absPath), ret |-> "EOF"]
         ELSE [caches |-> caches, ret |-> "nil"]

RECURSIVE walk(_, _, _, _, _), walkNames(_, _, _, _, _, _, _)

\* filepath.walk: the callback on the entry, then its children in order.
walk(nodes, rootSt, absRoot, rel, caches) ==
    LET st == StatusAt(nodes, rootSt, rel)
        r1 == WalkFn(absRoot \o rel, st, caches)
    IN  IF ~IsDirStatus(st) THEN r1
        ELSE IF st = "unreadable" \/ r1.ret # "nil" THEN r1
        ELSE walkNames(nodes, rootSt, absRoot, rel, ChildNames(nodes, rel), 1, r1.caches)

\* The loop of filepath.walk over the names of one directory.
walkNames(nodes, rootSt, absRoot, rel, names, i, caches) ==
    IF i > Len(names) THEN [caches |-> caches, ret |-> "nil"]
    ELSE LET child == Append(rel, names[i])
             st    == StatusAt(nodes, rootSt, child)
             r     == IF st = "nolstat"
                      THEN WalkFn(absRoot \o child, st, caches)
                      ELSE walk(nodes, rootSt, absRoot, child, caches)
         IN  IF r.ret # "nil" THEN r
             ELSE walkNames(nodes, rootSt, absRoot, rel, names, i + 1, r.caches)

\* filepath.Walk(root, fn)
Walk(f, absRoot) ==
    IF f.root = "nolstat"
    THEN WalkFn(absRoot, "nolstat", << >>)
    ELSE walk(f.nodes, f.root, absRoot, << >>, << >>)

\* collectLocalCaches: [caches, err, panicked]
collectLocalCaches(basePth, f) ==
    IF ~f.absOK
    THEN [caches |-> << >>, err |-> "abs", panicked |-> FALSE]
    ELSE LET r == Walk(f, Abs(basePth))
         IN  IF r.ret = "panic"
             THEN [caches |-> << >>, err |-> "nil", panicked |-> TRUE]
             ELSE IF r.ret # "nil" /\ r.ret # "EOF"
                  THEN [caches |-> << >>, err |-> "walk", panicked |-> FALSE]
                  ELSE [caches |-> r.caches, err |-> "nil", panicked |-> FALSE]

-----------------------------------------------------------------------------
(* collectCaches and the end of main                                       *)

homeDir == <<"home", "user">>
customPackages == <<"custom", "path">>

\* Values of NUGET_PACKAGES: unset or empty, or a path.
EnvGlobalValues == {<< >>, customPackages}

\* collectGlobalCaches
collectGlobalCaches(envVal) ==
    IF envVal # << >> THEN envVal ELSE homeDir \o <<".nuget", "packages">>

\* A registration that skips a path that is not on disk.
IncludeGlobal_IfExists(pth, exists) == IF exists THEN <<pth>> ELSE << >>

\* nuGetCache.IncludePath(collectGlobalCaches()): the path is included as it
\* is; whether it exists on disk is not looked at.
IncludeGlobal(pth, exists) == <<pth>>

\* A none case that does not return.
ReturnsEarly_Never(level) == FALSE

\* case cacheInputNone: return nil
ReturnsEarly(level) == level = cacheInputNone

\* The cases of the switch that call collectLocalCaches / collectGlobalCaches.
WalksFor(level)   == level \in {cacheInputlocal, cacheInputAll}
LooksUpFor(level) == level \in {cacheInputGlobal, cacheInputAll}

\* main after collectCaches: an error is only warned about, main returns.
MainExit(collectErr) == 0

\* collectCaches(configs.CacheLevel, path.Dir(configs.XamarinSolution)) and the
\* return of main; a panic in the walk ends the process with status 2.
CollectCaches ==
    /\ pc = "collect"
    /\ pc' = "exited"
    /\ LET level   == configs.CacheLevel
           basePth == PathDir(configs.XamarinSolution)
       IN  \E f \in (IF WalksFor(level) THEN FSStates ELSE {noFS}),
              envVal \in (IF LooksUpFor(level) THEN EnvGlobalValues ELSE {<< >>}),
              exists \in (IF LooksUpFor(level) THEN BOOLEAN ELSE {FALSE}),
              commitOK \in BOOLEAN :
             LET lc      == IF WalksFor(level)
                            THEN collectLocalCaches(basePth, f)
                            ELSE [caches |-> << >>, err |-> "nil", panicked |-> FALSE]
                 global  == IF LooksUpFor(level)
                            THEN IncludeGlobal(collectGlobalCaches(envVal), exists)
                            ELSE << >>
                 early   == ReturnsEarly(level)
                 cErr    == IF commitOK THEN "nil" ELSE "commit"
                 walked  == WalksFor(level) /\ f.absOK
             IN  /\ fs' = f
                 /\ IF lc.panicked
                    THEN /\ ~commitOK /\ envVal = << >> /\ ~exists
                         /\ cache' = [cache EXCEPT !.walked = TRUE]
                         /\ logs' = logs \o <<Log("panic", "nil pointer dereference")>>
                         /\ exitCode' = 2
                    ELSE IF early
                    THEN /\ ~commitOK
                         /\ cache' = cache
                         /\ logs' = logs
                         /\ exitCode' = MainExit("nil")
                    ELSE /\ cache' = [walked    |-> walked,
                                      envRead   |-> LooksUpFor(level),
                                      envVal    |-> envVal,
                                      globalExists |-> exists,
                                      localErr  |-> lc.err,
                                      paths     |-> lc.caches \o global,
                                      commits   |-> cache.commits + 1,
                                      commitErr |-> cErr]
                         /\ logs' = logs
                              \o (IF lc.err # "nil"
                                  THEN <<Log("warn", "Error occurred while getting cache")>>
                                  ELSE << >>)
                              \o (IF cErr # "nil"
                                  THEN <<Log("warn", "Cache collection skipped")>>
                                  ELSE << >>)
                         /\ exitCode' = MainExit(cErr)
    /\ UNCHANGED <<env, configs, nuGetURL, downloadPth, dlAttempts, destFile, cmdArgs,
                   rsAttempts, dlErr, rsErr>>

-----------------------------------------------------------------------------
Next ==
    \/ Parse
    \/ UseSystemNuGet
    \/ DownloadBegin
    \/ DownloadAttempt
    \/ DownloadReturn
    \/ RestoreAttempt
    \/ RestoreReturn
    \/ CollectCaches

Spec == Init /\ [][Next]_vars

-----------------------------------------------------------------------------
(* Properties                                                              *)

AllFailed(attempts)  == \A i \in 1..Len(attempts) : attempts[i].err # "nil"
SomeSucceeded(attempts) == \E i \in 1..Len(attempts) : attempts[i].err = "nil"
RestoreStarted == rsAttempts # << >> \/ pc \in {"restore", "collect"}
VersionRequested == env.nuget_version # strEmpty

\* C1: with a non-empty toolVersion, a run whose download attempts have all
\* failed (two attempts, or no attempt because the temp dir could not be made)
\* ends with exit status 1 and an acquisition error, and has executed no
\* restore attempt; a restore attempt occurs only after some download attempt
\* returned success.
C1_NoRestoreWithoutDownload ==
    /\ (VersionRequested /\ RestoreStarted) => SomeSucceeded(dlAttempts)
    /\ (VersionRequested /\ Len(dlAttempts) = dlRetry + 1 /\ AllFailed(dlAttempts))
          => /\ pc \in {"download", "exited"}
             /\ rsAttempts = << >>
             /\ pc = "exited" => (exitCode = 1 /\ dlErr \notin {"nil", "pending"})

C1_Witness ==
    /\ pc = "exited" /\ exitCode = 1
    /\ VersionRequested
    /\ Len(dlAttempts) = 2 /\ AllFailed(dlAttempts)
    /\ rsAttempts = << >>

\* The contract of one retried operation with one retry: at most two
\* attempts, a second one only after a failed first one, and once the wrapper
\* has returned: at least one attempt, the result is the error of the last
\* attempt, success exactly when some attempt succeeded, failure only after
\* two attempts.
RetryContract(attempts, result) ==
    /\ Len(attempts) <= 2
    /\ \A i \in 2..Len(attempts) : attempts[i - 1].err # "nil"
    /\ result \notin {"pending", "tmpdir"} =>
          /\ Len(attempts) >= 1
          /\ result = attempts[Len(attempts)].err
          /\ (result = "nil") <=> SomeSucceeded(attempts)
          /\ result # "nil" => Len(attempts) = 2

\* C2: both retried operations (download, restore) obey the retry contract,
\* and each stage has returned before main moves past it.
C2_RetryBounded ==
    /\ RetryContract(dlAttempts, dlErr)
    /\ RetryContract(rsAttempts, rsErr)
    /\ (pc \in {"restore", "collect"} /\ VersionRequested) => dlErr = "nil"
    /\ pc = "collect" => rsErr = "nil"

C2_Witness ==
    /\ Len(dlAttempts) = 2 /\ dlAttempts[1].err # "nil" /\ dlErr = "nil"
    /\ Len(rsAttempts) = 2 /\ rsAttempts[1].err # "nil" /\ rsErr = "nil"

\* No run of the restore command exited zero.
NoRestoreRunOK == \A i \in 1..Len(rsAttempts) : rsAttempts[i].out # "ok"
RestoreStageOver == pc = "collect" \/ (pc = "exited" /\ rsAttempts # << >>)

\* C3: when the restore stage is over and no run of the command succeeded
\* (each one exited non-zero or could not be started), two attempts were
\* made, the process has exited with status 1, and cache collection and the
\* cache commit have not happened.
C3_RestoreFailureFatal ==
    (RestoreStageOver /\ NoRestoreRunOK) =>
        /\ Len(rsAttempts) = 2
        /\ pc = "exited" /\ exitCode = 1
        /\ cache = noCache /\ fs = noFS

C3_Witness ==
    /\ pc = "exited" /\ exitCode = 1
    /\ Len(rsAttempts) = 2
    /\ rsAttempts[1].out = "start" /\ rsAttempts[2].out = "exit"
    /\ cache.commits = 0

\* C4: in every run in which the restore command succeeded, the process
\* exits with status zero, whatever the cacheLevel and whatever happens in
\* cache collection and commit.
C4_ExitZeroAfterRestore ==
    (pc = "exited" /\ rsErr = "nil") => exitCode = 0

SystemArgs(solution) == <<nuGetPth, <<"restore">>, solution>>

\* C5: with an empty toolVersion no download attempt is made (and no URL or
\* target path is built), and every restore attempt is run with exactly
\* [system tool path, "restore", solutionPath].
C5_SystemInvocation ==
    ~VersionRequested =>
        /\ dlAttempts = << >> /\ nuGetURL = << >> /\ downloadPth = << >>
        /\ dlErr = "pending"
        /\ \A i \in 1..Len(rsAttempts) :
              rsAttempts[i].args = SystemArgs(env.xamarin_solution)

C5_Witness ==
    /\ ~VersionRequested
    /\ Len(rsAttempts) = 2
    /\ rsAttempts[2].args = <<nuGetPth, <<"restore">>, solutionPath>>

\* C6: with a non-empty toolVersion whose download succeeded, every restore
\* attempt is run with exactly [interpreter path, path the successful
\* download wrote to, "restore", solutionPath].
C6_DownloadedInvocation ==
    VersionRequested =>
        \A i \in 1..Len(rsAttempts) :
            /\ SomeSucceeded(dlAttempts)
            /\ rsAttempts[i].args =
                  <<MonoPath, dlAttempts[Len(dlAttempts)].target,
                    <<"restore">>, env.xamarin_solution>>
            /\ dlAttempts[Len(dlAttempts)].target = <<"tmp", "__nuget__0", "nuget.exe">>

C6_Witness ==
    /\ VersionRequested
    /\ Len(rsAttempts) = 2
    /\ rsAttempts[1].args = rsAttempts[2].args
    /\ rsAttempts[2].args[1] = MonoPath

\* C7: every download attempt uses the URL with the segment latest (no v)
\* when toolVersion is "latest", and with v followed by the version
\* otherwise; both attempts use the same URL.
C7_DownloadURL ==
    \A i \in 1..Len(dlAttempts) :
        /\ dlAttempts[i].url =
              IF env.nuget_version = <<"l", "a", "t", "e", "s", "t">>
              THEN urlHead \o <<"l", "a", "t", "e", "s", "t">> \o urlTail
              ELSE urlHead \o <<"v">> \o env.nuget_version \o urlTail
        /\ dlAttempts[i].url = dlAttempts[1].url

C7_Witness ==
    /\ Len(dlAttempts) = 2
    /\ env.nuget_version = <<"3", ".", "3">>
    /\ dlAttempts[2].url = urlHead \o <<"v", "3", ".", "3">> \o urlTail

\* C8: a call of DownloadFile returns success exactly when the file was
\* created, the GET got a response, the status was 200 and the whole body
\* was copied; in every other case it returns an error.
C8_DownloadFileErrors ==
    \A i \in 1..Len(dlAttempts) :
        LET a == dlAttempts[i]
        IN  (a.err = "nil") <=>
               (a.out.createOK /\ a.out.getOK /\ a.out.status = 200 /\ a.out.copyOK)

C8_Witness ==
    \E i \in 1..Len(dlAttempts) :
        /\ dlAttempts[i].out.status = 404 /\ dlAttempts[i].out.copyOK
        /\ dlAttempts[i].err = "status"

\* C9: with cacheLevel none nothing of cache collection happens: no walk,
\* no lookup of the cache path, no path included, no commit.
C9_NoneTouchesNothing ==
    env.cache_level = "none" =>
        /\ fs = noFS
        /\ ~cache.walked /\ ~cache.envRead
        /\ cache.paths = << >> /\ cache.commits = 0

C9_Witness ==
    /\ pc = "exited" /\ exitCode = 0
    /\ configs.CacheLevel = "none"
    /\ rsErr = "nil"

\* filepath.Abs(path.Dir(configs.XamarinSolution))
projectRoot == Abs(PathDir(configs.XamarinSolution))

\* The entries of the tree rooted at the project root, the root included.
TreeNodes(f) ==
    f.nodes \cup (IF f.absOK /\ f.root # "none"
                  THEN {[path |-> << >>, st |-> f.root]} ELSE {})

\* Directories named exactly packages in the tree rooted at the project root.
PackagesDirs(f) ==
    {n \in TreeNodes(f) : IsDirStatus(n.st) /\ BaseName(projectRoot \o n.path) = "packages"}

NameIdx(nm) == CHOOSE i \in 1..Len(NameOrder) : NameOrder[i] = nm
IsProperPrefix(p, q) == Len(p) < Len(q) /\ SubSeq(q, 1, Len(p)) = p

\* p comes before q in a depth-first walk that visits siblings in name order.
MetBefore(p, q) ==
    \/ IsProperPrefix(p, q)
    \/ \E k \in 1..Len(p) :
          /\ k <= Len(q)
          /\ SubSeq(p, 1, k - 1) = SubSeq(q, 1, k - 1)
          /\ NameIdx(p[k]) < NameIdx(q[k])

FirstPackages(f) ==
    CHOOSE n \in PackagesDirs(f) :
        \A m \in PackagesDirs(f) \ {n} : MetBefore(n.path, m.path)

\* Entries on which the walk would get an error: a failed Lstat, or a
\* directory that cannot be listed.
ErrNodes(f) == {n \in TreeNodes(f) : n.st \in {"unreadable", "nolstat"}}

\* The walk meets no filesystem error: the root resolves, and every
\* erroneous entry lies after the first packages directory in walk order (the
\* walk stops there), that directory itself aside.
NoFsError(f) ==
    /\ f.absOK
    /\ \A e \in ErrNodes(f) :
          /\ PackagesDirs(f) # {}
          /\ e = FirstPackages(f) \/ MetBefore(FirstPackages(f).path, e.path)

\* cache collection with cacheLevel local has run
LocalRan == pc = "exited" /\ rsErr = "nil" /\ configs.CacheLevel = "local"

\* Whatever was collected is one directory named packages of the tree that
\* lies in no other directory named packages.
OnlyOuterPackagesDirs ==
    /\ Len(cache.paths) <= 1
    /\ \A i \in 1..Len(cache.paths) :
          \E n \in PackagesDirs(fs) :
              /\ cache.paths[i] = projectRoot \o n.path
              /\ \A m \in PackagesDirs(fs) : ~IsProperPrefix(m.path, n.path)

CollectedWith(level) ==
    pc = "exited" /\ rsErr = "nil" /\ exitCode = 0 /\ configs.CacheLevel = level

\* C11: with cacheLevel global exactly one path is registered: the value of
\* NUGET_PACKAGES when it is set and non-empty, else the default below the
\* home directory; it is registered whether or not it exists on disk, and no
\* directory is walked.
C11_GlobalRegistersOnePath ==
    (pc = "exited" /\ rsErr = "nil" /\ configs.CacheLevel = "global") =>
        /\ cache.paths =
              <<IF cache.envVal # << >> THEN cache.envVal
                ELSE <<"home", "user", ".nuget", "packages">> >>
        /\ cache.envRead /\ cache.commits = 1
        /\ ~cache.walked /\ fs = noFS

C11_Witness ==
    /\ CollectedWith("global")
    /\ cache.envVal = <<"custom", "path">>
    /\ ~cache.globalExists
    /\ cache.paths = <<(<<"custom", "path">>)>>

Range(seq) == {seq[i] : i \in 1..Len(seq)}

\* The paths handed to the cache registration in this run.
Registered == IF cache.commits > 0 THEN Range(cache.paths) ELSE {}

\* What cacheLevel local registers for a disk, what cacheLevel global
\* registers for a value of NUGET_PACKAGES.
LocalWould(f)       == Range(collectLocalCaches(PathDir(configs.XamarinSolution), f).caches)
GlobalWould(envVal) == {collectGlobalCaches(envVal)}

\* C12: with cacheLevel all the registered set is the union of what local
\* and global register for the same disk and environment, and nothing else.
C12_AllIsUnion ==
    (pc = "exited" /\ rsErr = "nil" /\ configs.CacheLevel = "all") =>
        \E v \in EnvGlobalValues :
            /\ cache.envRead => v = cache.envVal
            /\ Registered = LocalWould(fs) \cup GlobalWould(v)

\* cache collection with a cacheLevel that walks the project root has run
LocalCollectionRan ==
    pc = "exited" /\ rsErr = "nil" /\ configs.CacheLevel \in {"local", "all"}

\* C13: when the project root cannot be resolved, or the walk meets a
\* filesystem error, local cache collection returns an error (no crash, no
\* silent success) and the pipeline is not aborted.
C13_WalkErrorsReported ==
    (LocalCollectionRan /\ ~NoFsError(fs)) =>
        /\ cache.localErr # "nil"
        /\ exitCode = 0

\* The configuration is invalid: no existing solution file, or a cache level
\* outside the four options.
InvalidConfig ==
    \/ ~env.solution_exists
    \/ env.cache_level \notin {"local", "global", "all", "none"}

\* C14: with an invalid configuration the run does nothing but fail: no
\* download attempt, no restore attempt, no cache collection, and it exits
\* with status 1.
C14_ConfigErrorFirst ==
    InvalidConfig =>
        /\ pc \in {"parse", "exited"}
        /\ pc = "exited" => exitCode = 1
        /\ dlAttempts = << >> /\ nuGetURL = << >> /\ dlErr = "pending"
        /\ rsAttempts = << >> /\ rsErr = "pending"
        /\ cache = noCache /\ fs = noFS

C14_Witness ==
    /\ pc = "exited" /\ exitCode = 1
    /\ env.solution_exists
    /\ env.cache_level = "everything"
    /\ env.nuget_version # << >>

CountLogs(line) == Cardinality({i \in 1..Len(logs) : logs[i] = line})

dlRetryWarning == [level |-> "warn", msg |-> "Retrying..."]
rsRetryWarning == [level |-> "warn", msg |-> "Attempt failed, retrying..."]

\* Number of attempts made with an index greater than 0.
Retries(attempts) == IF Len(attempts) = 0 THEN 0 ELSE Len(attempts) - 1

\* C16: each retried operation has logged exactly one retry warning per
\* attempt with an index greater than 0 and none otherwise: none when the
\* first attempt succeeds, exactly one when it fails once and then succeeds.
C16_RetryWarnings ==
    /\ CountLogs(dlRetryWarning) = Retries(dlAttempts)
    /\ CountLogs(rsRetryWarning) = Retries(rsAttempts)
    /\ (Len(dlAttempts) >= 1 /\ dlAttempts[1].err = "nil") => CountLogs(dlRetryWarning) = 0
    /\ (Len(rsAttempts) >= 1 /\ rsAttempts[1].err = "nil") => CountLogs(rsRetryWarning) = 0
    /\ (dlErr = "nil" /\ Len(dlAttempts) = 2) => CountLogs(dlRetryWarning) = 1
    /\ (rsErr = "nil" /\ Len(rsAttempts) = 2) => CountLogs(rsRetryWarning) = 1

C16_Witness ==
    /\ dlErr = "nil" /\ Len(dlAttempts) = 1
    /\ rsErr = "nil" /\ Len(rsAttempts) = 2
    /\ CountLogs(dlRetryWarning) = 0
    /\ CountLogs(rsRetryWarning) = 1

\* The body served to the attempt with index k, as two chunks.
ServedBody(k) == <<[att |-> k, part |-> 1], [att |-> k, part |-> 2]>>

\* C17: after an attempt that created the file, the file holds nothing but
\* bytes of that attempt; once the download stage has returned success, and
\* whenever the restore command has been run with a requested version, the
\* file holds exactly the body of the successful (last) attempt.
C17_FileIsLastBody ==
    LET k == Len(dlAttempts) - 1
    IN  /\ (dlAttempts # << >> /\ dlAttempts[k + 1].out.createOK) =>
              destFile \in {<< >>, <<ServedBody(k)[1]>>, ServedBody(k)}
        /\ dlErr = "nil" => destFile = ServedBody(k)
        /\ (VersionRequested /\ rsAttempts # << >>) => destFile = ServedBody(k)

C17_Witness ==
    /\ Len(dlAttempts) = 2
    /\ dlAttempts[1].err = "copy"
    /\ dlErr = "nil"
    /\ rsAttempts # << >>
    /\ destFile = ServedBody(1)

\* C18: every run that reaches cache collection with cacheLevel all commits
\* a set that contains the global cache path.
C18_AllAlwaysHasGlobal ==
    (pc = "exited" /\ rsErr = "nil" /\ configs.CacheLevel = "all") =>
        /\ cache.commits = 1
        /\ \E g \in {<<"custom", "path">>, <<"home", "user", ".nuget", "packages">>} :
              g \in Range(cache.paths)

\* C19: at most two download attempts, then at most two restore attempts, no
\* download after the restore has started; the run goes on until it has
\* exited; with a valid configuration it ends with status zero exactly when
\* some restore attempt succeeded.
C19_TerminatesZeroIffRestored ==
    /\ Len(dlAttempts) <= 2 /\ Len(rsAttempts) <= 2
    /\ pc \in {"resolve", "download"} => rsAttempts = << >>
    /\ pc # "exited" => ENABLED Next
    /\ (pc = "exited") <=> (exitCode # -1)
    /\ (pc = "exited" /\ ~InvalidConfig) =>
          ((exitCode = 0) <=> (\E i \in 1..Len(rsAttempts) : rsAttempts[i].out = "ok"))

====
